---- MODULE Spec2Model ----
(***************************************************************************)
(* Data path of the virtio-rdma userspace provider                         *)
(* (providers/virtio/virtio_rdma.c): queue-pair post_send / post_recv,     *)
(* completion-queue create / poll, and a backend device that consumes and  *)
(* returns descriptors.  The split ring and its buffer pool (vring_*,      *)
(* virtio.c) and the wire structures (virtio_rdma_abi.h) are modelled from *)
(* their description; everything else follows virtio_rdma.c line by line.  *)
(***************************************************************************)
EXTENDS Integers, Sequences, FiniteSets, TLC

VARIABLES
    qp,      \* the queue pair: [live, qp_type, num_sq_sge, num_rq_sge, doorbell]
    cq,      \* the completion queue: [live, num_cqe]
    pool,    \* pool["sq"], pool["rq"], pool["cq"]: ring + buffer pool of each queue
    lock,    \* lock["sq"] = qp->slock, lock["rq"] = qp->rlock, lock["cq"] = cq->lock
    th,      \* per application thread: position in the running call and its locals
    calls,   \* number of data-path calls started so far
    cqlog,   \* ids of the completion records the backend has published, in order
    polled,  \* the completions the poll calls have returned, in order
    xl,      \* a call of one translation function: [fn, arg, out]
    res      \* what creation holds: control-plane objects, mappings, pool tables

vars == <<qp, cq, pool, lock, th, calls, cqlog, polled, xl, res>>

(***************************************************************************)
(* Bounds of the model.                                                    *)
(***************************************************************************)
MaxDepth == 2      \* largest negotiated queue depth (num_sqe, num_rqe, num_cqe)
MaxSge == 1        \* the negotiated max_send_sge / max_recv_sge
MaxList == 3       \* longest work-request list handed to one post call
MaxBuildList == 1  \* the same, where requests of every kind are posted
MaxCalls == 2      \* data-path calls per behaviour
MaxPoll == 2       \* largest num_entries handed to poll
MaxCqe == 3        \* completions the backend publishes per behaviour
MaxSetup == 3      \* create / destroy calls per behaviour

Threads == {"t1", "t2"}
Queues == {"sq", "rq", "cq"}
FREE == "free"

(***************************************************************************)
(* Program constants.                                                      *)
(***************************************************************************)
U8 == 256
U16 == 65536
ENOMEM == 12
EINVAL == 22
EOPNOTSUPP == 95

IBV_QPT_RC == 2
IBV_QPT_UC == 3
IBV_QPT_UD == 4

IBV_WR_RDMA_WRITE == 0
IBV_WR_RDMA_WRITE_WITH_IMM == 1
IBV_WR_SEND == 2
IBV_WR_SEND_WITH_IMM == 3
IBV_WR_RDMA_READ == 4
IBV_WR_ATOMIC_CMP_AND_SWP == 5

IBV_SEND_FENCE == 1
IBV_SEND_SIGNALED == 2
IBV_SEND_SOLICITED == 4
IBV_SEND_INLINE == 8

VIRTIO_IB_WR_RDMA_WRITE == 0
VIRTIO_IB_WR_RDMA_WRITE_WITH_IMM == 1
VIRTIO_IB_WR_SEND == 2
VIRTIO_IB_WR_SEND_WITH_IMM == 3
VIRTIO_IB_WR_RDMA_READ == 4

VIRTIO_IB_SEND_FENCE == 1
VIRTIO_IB_SEND_SIGNALED == 2
VIRTIO_IB_SEND_SOLICITED == 4
VIRTIO_IB_SEND_INLINE == 8

\* enum ibv_wc_status, enum ibv_wc_opcode, enum ibv_wc_flags (the members used)
IBV_WC_SUCCESS == 0
IBV_WC_LOC_LEN_ERR == 1
IBV_WC_LOC_QP_OP_ERR == 2
IBV_WC_LOC_PROT_ERR == 4
IBV_WC_WR_FLUSH_ERR == 5
IBV_WC_BAD_RESP_ERR == 7
IBV_WC_LOC_ACCESS_ERR == 8
IBV_WC_REM_INV_REQ_ERR == 9
IBV_WC_REM_ACCESS_ERR == 10
IBV_WC_REM_OP_ERR == 11
IBV_WC_RETRY_EXC_ERR == 12
IBV_WC_RNR_RETRY_EXC_ERR == 13
IBV_WC_REM_ABORT_ERR == 16
IBV_WC_FATAL_ERR == 19
IBV_WC_RESP_TIMEOUT_ERR == 20
IBV_WC_GENERAL_ERR == 21

IBV_WC_SEND == 0
IBV_WC_RDMA_WRITE == 1
IBV_WC_RDMA_READ == 2
IBV_WC_RECV == 128
IBV_WC_RECV_RDMA_WITH_IMM == 129

IBV_WC_GRH == 1
IBV_WC_WITH_IMM == 2

\* enum virtio_ib_wc_status, virtio_ib_wc_opcode, virtio_ib_wc_flags
VIRTIO_IB_WC_SUCCESS == 0
VIRTIO_IB_WC_LOC_LEN_ERR == 1
VIRTIO_IB_WC_LOC_QP_OP_ERR == 2
VIRTIO_IB_WC_LOC_PROT_ERR == 3
VIRTIO_IB_WC_WR_FLUSH_ERR == 4
VIRTIO_IB_WC_BAD_RESP_ERR == 5
VIRTIO_IB_WC_LOC_ACCESS_ERR == 6
VIRTIO_IB_WC_REM_INV_REQ_ERR == 7
VIRTIO_IB_WC_REM_ACCESS_ERR == 8
VIRTIO_IB_WC_REM_OP_ERR == 9
VIRTIO_IB_WC_RETRY_EXC_ERR == 10
VIRTIO_IB_WC_RNR_RETRY_EXC_ERR == 11
VIRTIO_IB_WC_REM_ABORT_ERR == 12
VIRTIO_IB_WC_FATAL_ERR == 13
VIRTIO_IB_WC_RESP_TIMEOUT_ERR == 14
VIRTIO_IB_WC_GENERAL_ERR == 15

VIRTIO_IB_WC_SEND == 0
VIRTIO_IB_WC_RDMA_WRITE == 1
VIRTIO_IB_WC_RDMA_READ == 2
VIRTIO_IB_WC_RECV == 3
VIRTIO_IB_WC_RECV_RDMA_WITH_IMM == 4

VIRTIO_IB_WC_GRH == 1
VIRTIO_IB_WC_WITH_IMM == 2

\* sizeof(struct virtio_rdma_sq_req), sizeof(struct virtio_rdma_rq_req),
\* sizeof(struct virtio_rdma_cq_req), sizeof(struct virtio_rdma_sge)
SqReqSize == 48
RqReqSize == 16
CqReqSize == 32
SgeSize == 16

(***************************************************************************)
(* Helpers.                                                                *)
(***************************************************************************)
\* flags & bit, for a single-bit mask
HasBit(flags, bit) == (flags \div bit) % 2 = 1

RECURSIVE SumLen(_)
SumLen(sgl) == IF sgl = <<>> THEN 0 ELSE Head(sgl).length + SumLen(Tail(sgl))

\* the application memory a fragment designates: `length` bytes at `addr`
MemBytes(sge) == [j \in 1..sge.length |-> sge.addr * 100 + j]

RECURSIVE Concat(_)
Concat(sgl) == IF sgl = <<>> THEN <<>> ELSE MemBytes(Head(sgl)) \o Concat(Tail(sgl))

(***************************************************************************)
(* Wire structures (virtio_rdma_abi.h): a freshly mapped slot.             *)
(***************************************************************************)
NoTrail == [kind |-> "none", data |-> <<>>]

ZeroSqReq ==
    [wr_id |-> 0, num_sge |-> 0, send_flags |-> 0, opcode |-> 0,
     xport |-> "none", inline_len |-> 0, trail |-> NoTrail, wlen |-> 0]

ZeroRqReq == [wr_id |-> 0, num_sge |-> 0, trail |-> NoTrail, wlen |-> 0]

ZeroCqReq == [wr_id |-> 0, status |-> 0, opcode |-> 0, wc_flags |-> 0]

(***************************************************************************)
(* Shared ring + buffer pool (virtio.c).                                   *)
(*   flist     the free-list ring: indices of the Free entries              *)
(*   avail     descriptors published to the backend and not yet consumed   *)
(*   used      entries the backend returned, not yet taken by get_one      *)
(*   avail_idx the producer index (16 bits)                                *)
(*   slots     the slot of each entry                                      *)
(***************************************************************************)
NoPool ==
    [depth |-> 0, entry_size |-> 0, flist |-> <<>>, avail |-> <<>>,
     used |-> <<>>, avail_idx |-> 0, slots |-> <<>>]

vring_init_pool(depth, entry_size, zero) ==
    [depth |-> depth, entry_size |-> entry_size,
     flist |-> [i \in 1..depth |-> i], avail |-> <<>>, used |-> <<>>,
     avail_idx |-> 0, slots |-> [i \in 1..depth |-> zero]]

\* the entry vring_flist_pop returns (0: NULL) and the pool it leaves
flist_head(p) == IF p.flist = <<>> THEN 0 ELSE Head(p.flist)
vring_flist_pop(p) == IF p.flist = <<>> THEN p ELSE [p EXCEPT !.flist = Tail(@)]

vring_flist_push(p, e) == [p EXCEPT !.flist = Append(@, e)]

\* the entry vring_get_one returns (0: NULL) and the pool it leaves
used_head(p) == IF p.used = <<>> THEN 0 ELSE Head(p.used)
vring_get_one(p) == IF p.used = <<>> THEN p ELSE [p EXCEPT !.used = Tail(@)]

\* src is the request the slot was built from (not part of the ring)
vring_add_one(p, e, len, src) ==
    [p EXCEPT !.avail = Append(@, [idx |-> e, len |-> len, src |-> src]),
              !.avail_idx = (@ + 1) % U16]

(***************************************************************************)
(* Translation tables.                                                     *)
(***************************************************************************)
\* (uint8_t)-1
INVALID_U8 == U8 - 1

to_virtio_wr_opcode(opcode) ==
    CASE opcode % U8 = IBV_WR_RDMA_WRITE -> VIRTIO_IB_WR_RDMA_WRITE
      [] opcode % U8 = IBV_WR_RDMA_WRITE_WITH_IMM -> VIRTIO_IB_WR_RDMA_WRITE_WITH_IMM
      [] opcode % U8 = IBV_WR_SEND -> VIRTIO_IB_WR_SEND
      [] opcode % U8 = IBV_WR_SEND_WITH_IMM -> VIRTIO_IB_WR_SEND_WITH_IMM
      [] opcode % U8 = IBV_WR_RDMA_READ -> VIRTIO_IB_WR_RDMA_READ
      [] OTHER -> INVALID_U8

to_virtio_send_flags(flags) ==
    CASE flags % U8 = IBV_SEND_FENCE -> VIRTIO_IB_SEND_FENCE
      [] flags % U8 = IBV_SEND_SIGNALED -> VIRTIO_IB_SEND_SIGNALED
      [] flags % U8 = IBV_SEND_SOLICITED -> VIRTIO_IB_SEND_SOLICITED
      [] flags % U8 = IBV_SEND_INLINE -> VIRTIO_IB_SEND_INLINE
      [] OTHER -> INVALID_U8

to_ib_status(status) ==
    CASE status % U8 = VIRTIO_IB_WC_SUCCESS -> IBV_WC_SUCCESS
      [] status % U8 = VIRTIO_IB_WC_LOC_LEN_ERR -> IBV_WC_LOC_LEN_ERR
      [] status % U8 = VIRTIO_IB_WC_LOC_QP_OP_ERR -> IBV_WC_LOC_QP_OP_ERR
      [] status % U8 = VIRTIO_IB_WC_LOC_PROT_ERR -> IBV_WC_LOC_PROT_ERR
      [] status % U8 = VIRTIO_IB_WC_WR_FLUSH_ERR -> IBV_WC_WR_FLUSH_ERR
      [] status % U8 = VIRTIO_IB_WC_BAD_RESP_ERR -> IBV_WC_BAD_RESP_ERR
      [] status % U8 = VIRTIO_IB_WC_LOC_ACCESS_ERR -> IBV_WC_LOC_ACCESS_ERR
      [] status % U8 = VIRTIO_IB_WC_REM_INV_REQ_ERR -> IBV_WC_REM_INV_REQ_ERR
      [] status % U8 = VIRTIO_IB_WC_REM_ACCESS_ERR -> IBV_WC_REM_ACCESS_ERR
      [] status % U8 = VIRTIO_IB_WC_REM_OP_ERR -> IBV_WC_REM_OP_ERR
      [] status % U8 = VIRTIO_IB_WC_RETRY_EXC_ERR -> IBV_WC_RETRY_EXC_ERR
      [] status % U8 = VIRTIO_IB_WC_RNR_RETRY_EXC_ERR -> IBV_WC_RNR_RETRY_EXC_ERR
      [] status % U8 = VIRTIO_IB_WC_REM_ABORT_ERR -> IBV_WC_REM_ABORT_ERR
      [] status % U8 = VIRTIO_IB_WC_FATAL_ERR -> IBV_WC_FATAL_ERR
      [] status % U8 = VIRTIO_IB_WC_RESP_TIMEOUT_ERR -> IBV_WC_RESP_TIMEOUT_ERR
      [] status % U8 = VIRTIO_IB_WC_GENERAL_ERR -> IBV_WC_GENERAL_ERR
      [] OTHER -> INVALID_U8

to_ib_wc_opcode(opcode) ==
    CASE opcode % U8 = VIRTIO_IB_WC_SEND -> IBV_WC_SEND
      [] opcode % U8 = VIRTIO_IB_WC_RDMA_WRITE -> IBV_WC_RDMA_WRITE
      [] opcode % U8 = VIRTIO_IB_WC_RDMA_READ -> IBV_WC_RDMA_READ
      [] opcode % U8 = VIRTIO_IB_WC_RECV -> IBV_WC_RECV
      [] opcode % U8 = VIRTIO_IB_WC_RECV_RDMA_WITH_IMM -> IBV_WC_RECV_RDMA_WITH_IMM
      [] OTHER -> INVALID_U8

\* to_ib_wc_flags with the flags handed through when no case matches
to_ib_wc_flags_PassThrough(flags) ==
    CASE flags % U8 = VIRTIO_IB_WC_GRH -> IBV_WC_GRH
      [] flags % U8 = VIRTIO_IB_WC_WITH_IMM -> IBV_WC_WITH_IMM
      [] OTHER -> flags % U8

to_ib_wc_flags(flags) ==
    CASE flags % U8 = VIRTIO_IB_WC_GRH -> IBV_WC_GRH
      [] flags % U8 = VIRTIO_IB_WC_WITH_IMM -> IBV_WC_WITH_IMM
      [] OTHER -> INVALID_U8

\* poll_cq's decoding of one completion record into wc[i]
DecodeCqe(req) ==
    [wr_id |-> req.wr_id,
     status |-> to_ib_status(req.status),
     opcode |-> to_ib_wc_opcode(req.opcode),
     wc_flags |-> to_ib_wc_flags(req.wc_flags)]


(***************************************************************************)
(* The inputs each translation maps, and the codes of each target          *)
(* encoding.                                                               *)
(***************************************************************************)
WireWcStatuses ==
    {VIRTIO_IB_WC_SUCCESS, VIRTIO_IB_WC_LOC_LEN_ERR,
     VIRTIO_IB_WC_LOC_QP_OP_ERR, VIRTIO_IB_WC_LOC_PROT_ERR,
     VIRTIO_IB_WC_WR_FLUSH_ERR, VIRTIO_IB_WC_BAD_RESP_ERR,
     VIRTIO_IB_WC_LOC_ACCESS_ERR, VIRTIO_IB_WC_REM_INV_REQ_ERR,
     VIRTIO_IB_WC_REM_ACCESS_ERR, VIRTIO_IB_WC_REM_OP_ERR,
     VIRTIO_IB_WC_RETRY_EXC_ERR, VIRTIO_IB_WC_RNR_RETRY_EXC_ERR,
     VIRTIO_IB_WC_REM_ABORT_ERR, VIRTIO_IB_WC_FATAL_ERR,
     VIRTIO_IB_WC_RESP_TIMEOUT_ERR, VIRTIO_IB_WC_GENERAL_ERR}

WireWcOpcodes ==
    {VIRTIO_IB_WC_SEND, VIRTIO_IB_WC_RDMA_WRITE, VIRTIO_IB_WC_RDMA_READ,
     VIRTIO_IB_WC_RECV, VIRTIO_IB_WC_RECV_RDMA_WITH_IMM}

WireWcFlags == {VIRTIO_IB_WC_GRH, VIRTIO_IB_WC_WITH_IMM}

GenericWrOpcodes ==
    {IBV_WR_RDMA_WRITE, IBV_WR_RDMA_WRITE_WITH_IMM, IBV_WR_SEND,
     IBV_WR_SEND_WITH_IMM, IBV_WR_RDMA_READ}

GenericSendFlags ==
    {IBV_SEND_FENCE, IBV_SEND_SIGNALED, IBV_SEND_SOLICITED, IBV_SEND_INLINE}

\* enum ibv_wc_status: IBV_WC_SUCCESS .. IBV_WC_TM_RNDV_INCOMPLETE
IbvWcStatusCodes == 0..23

\* enum ibv_wc_opcode: IBV_WC_SEND .. IBV_WC_ATOMIC_WRITE, and from
\* IBV_WC_RECV (1 << 7) to IBV_WC_DRIVER3
IbvWcOpcodeCodes == (0..9) \cup (128..137)

\* enum ibv_wc_flags: any combination of the bits 1 << 0 .. 1 << 6
IbvWcFlagCombos == 0..127

VirtioWrOpcodeCodes ==
    {VIRTIO_IB_WR_RDMA_WRITE, VIRTIO_IB_WR_RDMA_WRITE_WITH_IMM, VIRTIO_IB_WR_SEND,
     VIRTIO_IB_WR_SEND_WITH_IMM, VIRTIO_IB_WR_RDMA_READ}

\* any combination of the four wire send flags
VirtioSendFlagCombos ==
    {a + b + c + d : a \in {0, VIRTIO_IB_SEND_FENCE},
                     b \in {0, VIRTIO_IB_SEND_SIGNALED},
                     c \in {0, VIRTIO_IB_SEND_SOLICITED},
                     d \in {0, VIRTIO_IB_SEND_INLINE}}

(***************************************************************************)
(* One call of a translation function, or of poll_cq's decoding of a       *)
(* record whose status, opcode and flags bytes are all arg.                *)
(***************************************************************************)
XlatFns ==
    {"to_ib_status", "to_ib_wc_opcode", "to_virtio_wr_opcode", "to_ib_wc_flags",
     "to_virtio_send_flags", "poll_cq"}

XlatApply(fn, arg) ==
    CASE fn = "to_ib_status" -> to_ib_status(arg)
      [] fn = "to_ib_wc_opcode" -> to_ib_wc_opcode(arg)
      [] fn = "to_virtio_wr_opcode" -> to_virtio_wr_opcode(arg)
      [] fn = "to_ib_wc_flags" -> to_ib_wc_flags(arg)
      [] fn = "to_virtio_send_flags" -> to_virtio_send_flags(arg)
      [] fn = "poll_cq" -> DecodeCqe([wr_id |-> 1, status |-> arg,
                                      opcode |-> arg, wc_flags |-> arg])

(***************************************************************************)
(* Work requests handed to the post calls.                                 *)
(***************************************************************************)
Sge1 == [addr |-> 1, length |-> 4, lkey |-> 7]
Sge2 == [addr |-> 2, length |-> 4, lkey |-> 7]

\* one fragment more than the queue pair negotiated
LongSgl == [j \in 1..(MaxSge + 1) |-> Sge1]

SendKinds ==
    { [opcode |-> IBV_WR_SEND, send_flags |-> 0, sg_list |-> <<Sge1>>],
      [opcode |-> IBV_WR_SEND, send_flags |-> IBV_SEND_INLINE, sg_list |-> <<Sge1, Sge2>>],
      [opcode |-> IBV_WR_RDMA_WRITE, send_flags |-> IBV_SEND_SIGNALED, sg_list |-> LongSgl],
      [opcode |-> IBV_WR_ATOMIC_CMP_AND_SWP, send_flags |-> 0, sg_list |-> <<Sge1>>] }

RecvKinds ==
    { [sg_list |-> <<Sge1>>], [sg_list |-> LongSgl] }

\* a list of n requests; the i-th carries wr_id i
ListsOf(kinds) ==
    UNION { [1..n -> kinds] : n \in 0..MaxList }

SendLists == ListsOf(SendKinds)
FewSendLists == ListsOf({k \in SendKinds : Len(k.sg_list) = 1})
ValidRecvLists == ListsOf({k \in RecvKinds : Len(k.sg_list) = 1})
ValidSendLists == ListsOf({k \in SendKinds : k.opcode = IBV_WR_SEND /\ Len(k.sg_list) = 1})
BuildLists == {l \in SendLists : Len(l) <= MaxBuildList}

QpTypes == {IBV_QPT_RC, IBV_QPT_UC, IBV_QPT_UD}

(***************************************************************************)
(* Threads.                                                                *)
(*   pc    position in the running call ("idle": none)                     *)
(*   op    the call ("send", "recv", "poll"); kept after it returns        *)
(*   reqs  the list handed to the call; wr the index of the current        *)
(*         request (Len(reqs) + 1: NULL)                                   *)
(*   buf   buf_entry (0: NULL); len: sgl_len; rc: the return code          *)
(*   bad   *bad_wr as the caller finds it (0: never assigned)              *)
(*   num, i, wc  poll's num_entries, count and output array                *)
(*   pub, ev, got, empty  history of the call: descriptors it published,   *)
(*         its add_one / notify events, entries get_one handed to it,      *)
(*         whether get_one returned NULL                                   *)
(***************************************************************************)
IdleTh ==
    [pc |-> "idle", op |-> "none", reqs |-> <<>>, wr |-> 1, buf |-> 0,
     len |-> 0, rc |-> 0, bad |-> 0, num |-> 0, i |-> 0, wc |-> <<>>,
     pub |-> <<>>, ev |-> <<>>, got |-> 0, empty |-> FALSE]

\* no translation call made; nothing created
NoXl == [fn |-> "none", arg |-> 0, out |-> 0]

\*   pc              position of the running create / destroy call
\*   qp_obj, cq_obj  the control plane holds the object
\*   *_map           the region is mapped; *_tab: pool tables allocated
\*   qp_ret, cq_ret  what creation returned ("none", "ok", "null")
\*   qp_rc, cq_rc    return code of the last destroy call on the object
\*   stray           munmap was called on a region that was not mapped
\*   n               create / destroy calls started so far
NoRes ==
    [pc |-> "idle",
     qp_obj |-> FALSE, sq_map |-> FALSE, rq_map |-> FALSE, sq_tab |-> 0, rq_tab |-> 0,
     qp_ret |-> "none",
     cq_obj |-> FALSE, cq_map |-> FALSE, cq_tab |-> 0, cq_ret |-> "none",
     qp_rc |-> 0, cq_rc |-> 0, stray |-> FALSE, n |-> 0]

Init ==
    /\ qp = [live |-> FALSE, qp_type |-> 0, num_sq_sge |-> 0, num_rq_sge |-> 0,
             doorbell |-> FALSE]
    /\ cq = [live |-> FALSE, num_cqe |-> 0]
    /\ pool = [q \in Queues |-> NoPool]
    /\ lock = [q \in Queues |-> FREE]
    /\ th = [t \in Threads |-> IdleTh]
    /\ calls = 0
    /\ cqlog = <<>>
    /\ polled = <<>>
    /\ xl = NoXl
    /\ res = NoRes

(***************************************************************************)
(* virtio_rdma_create_qp, the path on which every step succeeds.           *)
(***************************************************************************)
CreateQp(qp_type, num_sqe, num_rqe, max_send_sge, max_recv_sge, notifier) ==
    /\ ~qp.live
    /\ qp' = [live |-> TRUE, qp_type |-> qp_type, num_sq_sge |-> max_send_sge,
              num_rq_sge |-> max_recv_sge, doorbell |-> notifier]
    /\ pool' = [pool EXCEPT
                  !["sq"] = vring_init_pool(num_sqe,
                                SqReqSize + max_send_sge * SgeSize, ZeroSqReq),
                  !["rq"] = vring_init_pool(num_rqe,
                                RqReqSize + max_recv_sge * SgeSize, ZeroRqReq)]
    /\ lock' = [lock EXCEPT !["sq"] = FREE, !["rq"] = FREE]
    /\ UNCHANGED <<cq, th, calls, cqlog, polled, xl, res>>

(***************************************************************************)
(* virtio_rdma_post_send.                                                  *)
(***************************************************************************)
\* while ((buf_entry = vring_get_one(q)) != NULL) vring_flist_push(q, buf_entry);
RECURSIVE Reclaim(_)
Reclaim(p) ==
    IF used_head(p) = 0 THEN p
    ELSE Reclaim(vring_flist_push(vring_get_one(p), used_head(p)))

\* a thread calls ibv_post_send and reaches pthread_spin_lock(&qp->slock)
PostSendCall(t) ==
    /\ qp.live
    /\ th[t].pc = "idle"
    /\ calls < MaxCalls
    /\ th' = [th EXCEPT ![t] = [IdleTh EXCEPT !.pc = "s_lock", !.op = "send"]]
    /\ calls' = calls + 1
    /\ UNCHANGED <<qp, cq, pool, lock, cqlog, polled, xl, res>>

\* PostSendLock without the spin: the caller proceeds while the lock is held
PostSendLock_NoSpin(t, reqs) ==
    /\ th[t].pc = "s_lock"
    /\ lock' = [lock EXCEPT !["sq"] = t]
    /\ th' = [th EXCEPT ![t].pc = "s_loop", ![t].reqs = reqs]
    /\ UNCHANGED <<qp, cq, pool, calls, cqlog, polled, xl, res>>

\* pthread_spin_lock(&qp->slock) returns; reqs is the list the caller passed
PostSendLock(t, reqs) ==
    /\ th[t].pc = "s_lock"
    /\ lock["sq"] = FREE
    /\ lock' = [lock EXCEPT !["sq"] = t]
    /\ th' = [th EXCEPT ![t].pc = "s_loop", ![t].reqs = reqs]
    /\ UNCHANGED <<qp, cq, pool, calls, cqlog, polled, xl, res>>

\* loop head, reclaim, vring_flist_pop and the -ENOMEM exit
PostSendPop(t) ==
    /\ th[t].pc = "s_loop"
    /\ th[t].wr <= Len(th[t].reqs)
    /\ LET p1 == Reclaim(pool["sq"])
           e == flist_head(p1)
       IN  IF e = 0
           THEN /\ pool' = [pool EXCEPT !["sq"] = p1]
                /\ th' = [th EXCEPT ![t].rc = -ENOMEM, ![t].pc = "s_out"]
           ELSE /\ pool' = [pool EXCEPT !["sq"] = vring_flist_pop(p1)]
                /\ th' = [th EXCEPT ![t].buf = e, ![t].pc = "s_build"]
    /\ UNCHANGED <<qp, cq, lock, calls, cqlog, polled, xl, res>>

\* copy_inline_data_to_wqe: p starts at req->inline_data and advances by
\* each fragment's length; req->inline_len accumulates the lengths
RECURSIVE copy_inline_data_to_wqe(_, _)
copy_inline_data_to_wqe(req, sgl) ==
    IF sgl = <<>> THEN req
    ELSE copy_inline_data_to_wqe(
             [req EXCEPT !.trail = [kind |-> "inline",
                                    data |-> @.data \o MemBytes(Head(sgl))],
                         !.inline_len = @ + Head(sgl).length],
             Tail(sgl))

\* the header fields of the slot
SendHeader(req, w, id) ==
    [req EXCEPT !.num_sge = Len(w.sg_list),
                !.send_flags = to_virtio_send_flags(w.send_flags),
                !.opcode = to_virtio_wr_opcode(w.opcode),
                !.wr_id = id]

\* switch (ibqp->qp_type): the error code (0: none) and the addressing written
SendXportRc(qp_type, opcode) ==
    IF qp_type = IBV_QPT_UD THEN 0
    ELSE IF qp_type = IBV_QPT_RC
         THEN IF opcode \in {IBV_WR_RDMA_READ, IBV_WR_RDMA_WRITE,
                             IBV_WR_RDMA_WRITE_WITH_IMM, IBV_WR_SEND,
                             IBV_WR_SEND_WITH_IMM}
              THEN 0 ELSE -EOPNOTSUPP
         ELSE -EINVAL

SendXport(req, qp_type, opcode) ==
    IF qp_type = IBV_QPT_UD THEN [req EXCEPT !.xport = "ud"]
    ELSE IF qp_type = IBV_QPT_RC /\ opcode \in {IBV_WR_RDMA_READ, IBV_WR_RDMA_WRITE,
                                                  IBV_WR_RDMA_WRITE_WITH_IMM}
         THEN [req EXCEPT !.xport = "rdma"]
         ELSE req

\* SendPayload without req->inline_len = 0: the slot's old length is kept
SendPayload_StaleLen(req, w) ==
    IF HasBit(w.send_flags, IBV_SEND_INLINE)
    THEN LET r == copy_inline_data_to_wqe(
                      [req EXCEPT !.trail = [kind |-> "inline", data |-> <<>>]],
                      w.sg_list)
         IN  [r EXCEPT !.wlen = SqReqSize + Len(r.trail.data)]
    ELSE [req EXCEPT !.trail = [kind |-> "sgl", data |-> w.sg_list],
                     !.wlen = SqReqSize + SgeSize * Len(w.sg_list)]

\* the payload: inline bytes, or the scatter-gather list copied verbatim
SendPayload(req, w) ==
    IF HasBit(w.send_flags, IBV_SEND_INLINE)
    THEN LET r == copy_inline_data_to_wqe(
                      [req EXCEPT !.inline_len = 0,
                                  !.trail = [kind |-> "inline", data |-> <<>>]],
                      w.sg_list)
         IN  [r EXCEPT !.wlen = SqReqSize + Len(r.trail.data)]
    ELSE [req EXCEPT !.trail = [kind |-> "sgl", data |-> w.sg_list],
                     !.wlen = SqReqSize + SgeSize * Len(w.sg_list)]

\* sgl_len as passed to vring_add_one
SendSglLen(w) ==
    IF HasBit(w.send_flags, IBV_SEND_INLINE) THEN 0 ELSE SgeSize * Len(w.sg_list)

\* PostSendBuild publishing after the header: the addressing and the payload
\* are not in the slot when vring_add_one runs
PostSendBuild_HeaderOnly(t) ==
    /\ th[t].pc = "s_build"
    /\ LET w == th[t].reqs[th[t].wr]
           e == th[t].buf
           hdr == SendHeader(pool["sq"].slots[e], w, th[t].wr)
           rc == SendXportRc(qp.qp_type, w.opcode)
       IN  IF rc # 0
           THEN /\ pool' = [pool EXCEPT !["sq"].slots[e] = [hdr EXCEPT !.wlen = SqReqSize]]
                /\ th' = [th EXCEPT ![t].rc = rc, ![t].pc = "s_out"]
           ELSE /\ pool' = [pool EXCEPT !["sq"].slots[e] = hdr]
                /\ th' = [th EXCEPT ![t].len = SendSglLen(w), ![t].pc = "s_add"]
    /\ UNCHANGED <<qp, cq, lock, calls, cqlog, polled, xl, res>>

\* the header, then the addressing, then the payload; out_err on a bad opcode
PostSendBuild(t) ==
    /\ th[t].pc = "s_build"
    /\ LET w == th[t].reqs[th[t].wr]
           e == th[t].buf
           hdr == SendHeader(pool["sq"].slots[e], w, th[t].wr)
           rc == SendXportRc(qp.qp_type, w.opcode)
           adr == SendXport(hdr, qp.qp_type, w.opcode)
       IN  IF rc # 0
           THEN /\ pool' = [pool EXCEPT !["sq"].slots[e] = [hdr EXCEPT !.wlen = SqReqSize]]
                /\ th' = [th EXCEPT ![t].rc = rc, ![t].pc = "s_out"]
           ELSE /\ pool' = [pool EXCEPT !["sq"].slots[e] = SendPayload(adr, w)]
                /\ th' = [th EXCEPT ![t].len = SendSglLen(w), ![t].pc = "s_add"]
    /\ UNCHANGED <<qp, cq, lock, calls, cqlog, polled, xl, res>>

\* PostSendAdd ringing the doorbell after every request
PostSendAdd_Notify(t) ==
    /\ th[t].pc = "s_add"
    /\ LET e == th[t].buf
           len == SqReqSize + th[t].len
           src == [wr_id |-> th[t].wr] @@ th[t].reqs[th[t].wr]
       IN  /\ pool' = [pool EXCEPT !["sq"] = vring_add_one(@, e, len, src)]
           /\ th' = [th EXCEPT ![t].wr = @ + 1, ![t].buf = 0, ![t].pc = "s_loop",
                               ![t].pub = Append(@, [idx |-> e, len |-> len, src |-> src]),
                               ![t].ev = @ \o <<"add", IF qp.doorbell THEN "vring_notify"
                                                       ELSE "slow_doorbell">>]
    /\ UNCHANGED <<qp, cq, lock, calls, cqlog, polled, xl, res>>

\* vring_add_one(&qp->sq, buf_entry, sizeof(*req) + sgl_len); wr = wr->next
PostSendAdd(t) ==
    /\ th[t].pc = "s_add"
    /\ LET e == th[t].buf
           len == SqReqSize + th[t].len
           src == [wr_id |-> th[t].wr] @@ th[t].reqs[th[t].wr]
       IN  /\ pool' = [pool EXCEPT !["sq"] = vring_add_one(@, e, len, src)]
           /\ th' = [th EXCEPT ![t].wr = @ + 1, ![t].buf = 0, ![t].pc = "s_loop",
                               ![t].pub = Append(@, [idx |-> e, len |-> len, src |-> src]),
                               ![t].ev = Append(@, "add")]
    /\ UNCHANGED <<qp, cq, lock, calls, cqlog, polled, xl, res>>

\* after the loop: vring_notify, or slow_doorbell when no doorbell was negotiated
PostSendNotify(t) ==
    /\ th[t].pc = "s_loop"
    /\ th[t].wr > Len(th[t].reqs)
    /\ th' = [th EXCEPT ![t].pc = "s_out",
                        ![t].ev = Append(@, IF qp.doorbell THEN "vring_notify"
                                            ELSE "slow_doorbell")]
    /\ UNCHANGED <<qp, cq, pool, lock, calls, cqlog, polled, xl, res>>

\* PostSendBadWr reporting the request after the failing one
PostSendBadWr_Next(t) ==
    /\ th[t].pc = "s_out"
    /\ th' = [th EXCEPT ![t].bad = th[t].wr + 1, ![t].pc = "s_ret"]
    /\ UNCHANGED <<qp, cq, pool, lock, calls, cqlog, polled, xl, res>>

\* out_err: *bad_wr = wr
PostSendBadWr(t) ==
    /\ th[t].pc = "s_out"
    /\ th' = [th EXCEPT ![t].bad = th[t].wr, ![t].pc = "s_ret"]
    /\ UNCHANGED <<qp, cq, pool, lock, calls, cqlog, polled, xl, res>>

\* PostSendUnlock with the error paths returning rc directly: slock stays held
PostSendUnlock_ErrHeld(t) ==
    /\ th[t].pc = "s_ret"
    /\ th' = [th EXCEPT ![t] = IdleTh]
    /\ lock' = IF th[t].rc = 0 THEN [lock EXCEPT !["sq"] = FREE] ELSE lock
    /\ UNCHANGED <<qp, cq, pool, calls, cqlog, polled, xl, res>>

\* pthread_spin_unlock(&qp->slock); return rc
PostSendUnlock(t) ==
    /\ th[t].pc = "s_ret"
    /\ th' = [th EXCEPT ![t] = IdleTh]
    /\ lock' = [lock EXCEPT !["sq"] = FREE]
    /\ UNCHANGED <<qp, cq, pool, calls, cqlog, polled, xl, res>>

(***************************************************************************)
(* virtio_rdma_post_recv.                                                  *)
(***************************************************************************)
\* a thread calls ibv_post_recv and reaches pthread_spin_lock(&qp->rlock)
PostRecvCall(t) ==
    /\ qp.live
    /\ th[t].pc = "idle"
    /\ calls < MaxCalls
    /\ th' = [th EXCEPT ![t] = [IdleTh EXCEPT !.pc = "r_lock", !.op = "recv"]]
    /\ calls' = calls + 1
    /\ UNCHANGED <<qp, cq, pool, lock, cqlog, polled, xl, res>>

\* pthread_spin_lock(&qp->rlock) returns; reqs is the list the caller passed
PostRecvLock(t, reqs) ==
    /\ th[t].pc = "r_lock"
    /\ lock["rq"] = FREE
    /\ lock' = [lock EXCEPT !["rq"] = t]
    /\ th' = [th EXCEPT ![t].pc = "r_loop", ![t].reqs = reqs]
    /\ UNCHANGED <<qp, cq, pool, calls, cqlog, polled, xl, res>>

\* loop head, reclaim, vring_flist_pop and the -ENOMEM exit (*bad_wr = wr)
PostRecvPop(t) ==
    /\ th[t].pc = "r_loop"
    /\ th[t].wr <= Len(th[t].reqs)
    /\ LET p1 == Reclaim(pool["rq"])
           e == flist_head(p1)
       IN  IF e = 0
           THEN /\ pool' = [pool EXCEPT !["rq"] = p1]
                /\ th' = [th EXCEPT ![t].bad = th[t].wr, ![t].rc = -ENOMEM,
                                    ![t].pc = "r_out"]
           ELSE /\ pool' = [pool EXCEPT !["rq"] = vring_flist_pop(p1)]
                /\ th' = [th EXCEPT ![t].buf = e, ![t].pc = "r_build"]
    /\ UNCHANGED <<qp, cq, lock, calls, cqlog, polled, xl, res>>

\* req->num_sge, req->wr_id, memcpy(sgl, wr->sg_list, sgl_len)
RecvRecord(req, w, id) ==
    [req EXCEPT !.num_sge = Len(w.sg_list), !.wr_id = id,
                !.trail = [kind |-> "sgl", data |-> w.sg_list],
                !.wlen = RqReqSize + SgeSize * Len(w.sg_list)]

PostRecvBuild(t) ==
    /\ th[t].pc = "r_build"
    /\ LET w == th[t].reqs[th[t].wr]
           e == th[t].buf
       IN  /\ pool' = [pool EXCEPT !["rq"].slots[e] = RecvRecord(@, w, th[t].wr)]
           /\ th' = [th EXCEPT ![t].len = SgeSize * Len(w.sg_list), ![t].pc = "r_add"]
    /\ UNCHANGED <<qp, cq, lock, calls, cqlog, polled, xl, res>>

\* vring_add_one(&qp->rq, buf_entry, sizeof(*req) + sgl_len); wr = wr->next
PostRecvAdd(t) ==
    /\ th[t].pc = "r_add"
    /\ LET e == th[t].buf
           len == RqReqSize + th[t].len
           src == [wr_id |-> th[t].wr] @@ th[t].reqs[th[t].wr]
       IN  /\ pool' = [pool EXCEPT !["rq"] = vring_add_one(@, e, len, src)]
           /\ th' = [th EXCEPT ![t].wr = @ + 1, ![t].buf = 0, ![t].pc = "r_loop",
                               ![t].pub = Append(@, [idx |-> e, len |-> len, src |-> src]),
                               ![t].ev = Append(@, "add")]
    /\ UNCHANGED <<qp, cq, lock, calls, cqlog, polled, xl, res>>

\* after the loop: vring_notify, or slow_doorbell when no doorbell was negotiated
PostRecvNotify(t) ==
    /\ th[t].pc = "r_loop"
    /\ th[t].wr > Len(th[t].reqs)
    /\ th' = [th EXCEPT ![t].pc = "r_out",
                        ![t].ev = Append(@, IF qp.doorbell THEN "vring_notify"
                                            ELSE "slow_doorbell")]
    /\ UNCHANGED <<qp, cq, pool, lock, calls, cqlog, polled, xl, res>>

\* out: pthread_spin_unlock(&qp->rlock); return rc
PostRecvUnlock(t) ==
    /\ th[t].pc = "r_out"
    /\ th' = [th EXCEPT ![t] = IdleTh]
    /\ lock' = [lock EXCEPT !["rq"] = FREE]
    /\ UNCHANGED <<qp, cq, pool, calls, cqlog, polled, xl, res>>

(***************************************************************************)
(* virtio_rdma_create_cq, the path on which every step succeeds: the pool  *)
(* is built and every entry is popped from the free list and posted.       *)
(***************************************************************************)
\* for (i = 0; i < num_cqe; i++) { pop; vring_add_one(.., sizeof(cq_req)); }
RECURSIVE CqPrepost(_, _)
CqPrepost(p, n) ==
    IF n = 0 THEN p
    ELSE CqPrepost(vring_add_one(vring_flist_pop(p), flist_head(p), CqReqSize,
                                 ZeroCqReq), n - 1)

\* CreateCq without the loop that posts the entries
CreateCq_NoPrepost(num_cqe) ==
    /\ ~cq.live
    /\ cq' = [live |-> TRUE, num_cqe |-> num_cqe]
    /\ pool' = [pool EXCEPT !["cq"] = vring_init_pool(num_cqe, CqReqSize, ZeroCqReq)]
    /\ lock' = [lock EXCEPT !["cq"] = FREE]
    /\ UNCHANGED <<qp, th, calls, cqlog, polled, xl, res>>

CreateCq(num_cqe) ==
    /\ ~cq.live
    /\ cq' = [live |-> TRUE, num_cqe |-> num_cqe]
    /\ pool' = [pool EXCEPT
                  !["cq"] = CqPrepost(vring_init_pool(num_cqe, CqReqSize, ZeroCqReq),
                                      num_cqe)]
    /\ lock' = [lock EXCEPT !["cq"] = FREE]
    /\ UNCHANGED <<qp, th, calls, cqlog, polled, xl, res>>

(***************************************************************************)
(* Creation and destruction step by step, each step succeeding or failing  *)
(* as the control plane, mmap and vring_init_pool decide.                  *)
(***************************************************************************)
\* munmap of a region: a region that is not mapped makes the call stray
Munmap(r, region) ==
    IF r[region] THEN [r EXCEPT ![region] = FALSE] ELSE [r EXCEPT !.stray = TRUE]

\* calloc(qp); ibv_cmd_create_qp
CreateQpCmd(ok) ==
    /\ res.pc = "idle" /\ ~res.qp_obj /\ res.n < MaxSetup
    /\ res' = IF ok THEN [res EXCEPT !.pc = "q_sq_map", !.qp_obj = TRUE,
                                      !.qp_ret = "none", !.n = @ + 1]
                    ELSE [res EXCEPT !.qp_ret = "null", !.n = @ + 1]
    /\ UNCHANGED <<qp, cq, pool, lock, th, calls, cqlog, polled, xl>>

\* qp->sq.buf = mmap(..); MAP_FAILED: goto fail
CreateQpSqMap(ok) ==
    /\ res.pc = "q_sq_map"
    /\ res' = IF ok THEN [res EXCEPT !.pc = "q_sq_pool", !.sq_map = TRUE]
                    ELSE [res EXCEPT !.pc = "q_fail"]
    /\ UNCHANGED <<qp, cq, pool, lock, th, calls, cqlog, polled, xl>>

\* vring_init_pool(&qp->sq, ..); failure: goto fail_sq
CreateQpSqPool(ok, num_sqe, max_send_sge) ==
    /\ res.pc = "q_sq_pool"
    /\ IF ok
       THEN /\ res' = [res EXCEPT !.pc = "q_rq_map", !.sq_tab = @ + 1]
            /\ pool' = [pool EXCEPT !["sq"] = vring_init_pool(num_sqe,
                                        SqReqSize + max_send_sge * SgeSize, ZeroSqReq)]
       ELSE /\ res' = [res EXCEPT !.pc = "q_fail_sq"]
            /\ pool' = pool
    /\ UNCHANGED <<qp, cq, lock, th, calls, cqlog, polled, xl>>

\* qp->rq.buf = mmap(..); MAP_FAILED: goto fail_sq
CreateQpRqMap(ok) ==
    /\ res.pc = "q_rq_map"
    /\ res' = IF ok THEN [res EXCEPT !.pc = "q_rq_pool", !.rq_map = TRUE]
                    ELSE [res EXCEPT !.pc = "q_fail_sq"]
    /\ UNCHANGED <<qp, cq, pool, lock, th, calls, cqlog, polled, xl>>

\* vring_init_pool(&qp->rq, ..); failure: goto fail_rq; success: return the qp
CreateQpRqPool(ok, qp_type, num_rqe, max_send_sge, max_recv_sge, notifier) ==
    /\ res.pc = "q_rq_pool"
    /\ IF ok
       THEN /\ res' = [res EXCEPT !.pc = "idle", !.rq_tab = @ + 1, !.qp_ret = "ok"]
            /\ pool' = [pool EXCEPT !["rq"] = vring_init_pool(num_rqe,
                                        RqReqSize + max_recv_sge * SgeSize, ZeroRqReq)]
            /\ qp' = [live |-> TRUE, qp_type |-> qp_type, num_sq_sge |-> max_send_sge,
                      num_rq_sge |-> max_recv_sge, doorbell |-> notifier]
       ELSE /\ res' = [res EXCEPT !.pc = "q_fail_rq"]
            /\ pool' = pool
            /\ qp' = qp
    /\ UNCHANGED <<cq, lock, th, calls, cqlog, polled, xl>>

\* fail_rq: munmap(qp->rq.buf, ..)
CreateQpFailRq ==
    /\ res.pc = "q_fail_rq"
    /\ res' = [Munmap(res, "rq_map") EXCEPT !.pc = "q_fail_sq"]
    /\ UNCHANGED <<qp, cq, pool, lock, th, calls, cqlog, polled, xl>>

\* fail_sq: munmap(qp->sq.buf, ..)
CreateQpFailSq ==
    /\ res.pc = "q_fail_sq"
    /\ res' = [Munmap(res, "sq_map") EXCEPT !.pc = "q_fail"]
    /\ pool' = [pool EXCEPT !["sq"] = NoPool]
    /\ UNCHANGED <<qp, cq, lock, th, calls, cqlog, polled, xl>>

\* fail: ibv_cmd_destroy_qp; free(qp); return NULL
CreateQpFail ==
    /\ res.pc = "q_fail"
    /\ res' = [res EXCEPT !.pc = "idle", !.qp_obj = FALSE, !.qp_ret = "null"]
    /\ UNCHANGED <<qp, cq, pool, lock, th, calls, cqlog, polled, xl>>

\* calloc(cq); ibv_cmd_create_cq
CreateCqCmd(ok) ==
    /\ res.pc = "idle" /\ ~res.cq_obj /\ res.n < MaxSetup
    /\ res' = IF ok THEN [res EXCEPT !.pc = "c_map", !.cq_obj = TRUE,
                                      !.cq_ret = "none", !.n = @ + 1]
                    ELSE [res EXCEPT !.cq_ret = "null", !.n = @ + 1]
    /\ UNCHANGED <<qp, cq, pool, lock, th, calls, cqlog, polled, xl>>

\* cq->vring.buf = mmap(..); MAP_FAILED: goto fail
CreateCqMap(ok) ==
    /\ res.pc = "c_map"
    /\ res' = IF ok THEN [res EXCEPT !.pc = "c_pool", !.cq_map = TRUE]
                    ELSE [res EXCEPT !.pc = "c_fail"]
    /\ UNCHANGED <<qp, cq, pool, lock, th, calls, cqlog, polled, xl>>

\* vring_init_pool(&cq->vring, ..): failure: munmap, goto fail; success: every
\* entry is posted and the cq returned
CreateCqPool(ok, num_cqe) ==
    /\ res.pc = "c_pool"
    /\ IF ok
       THEN /\ res' = [res EXCEPT !.pc = "idle", !.cq_tab = @ + 1, !.cq_ret = "ok"]
            /\ pool' = [pool EXCEPT !["cq"] =
                            CqPrepost(vring_init_pool(num_cqe, CqReqSize, ZeroCqReq),
                                      num_cqe)]
            /\ cq' = [live |-> TRUE, num_cqe |-> num_cqe]
       ELSE /\ res' = [Munmap(res, "cq_map") EXCEPT !.pc = "c_fail"]
            /\ pool' = pool
            /\ cq' = cq
    /\ UNCHANGED <<qp, lock, th, calls, cqlog, polled, xl>>

\* fail: ibv_cmd_destroy_cq; free(cq); return NULL
CreateCqFail ==
    /\ res.pc = "c_fail"
    /\ res' = [res EXCEPT !.pc = "idle", !.cq_obj = FALSE, !.cq_ret = "null"]
    /\ UNCHANGED <<qp, cq, pool, lock, th, calls, cqlog, polled, xl>>

(***************************************************************************)
(* virtio_rdma_destroy_qp and virtio_rdma_destroy_cq.  rc is what the      *)
(* control plane answers to the destroy command.                           *)
(***************************************************************************)
DestroyRcs == {0, EINVAL}

\* DestroyQpCmd going on to release whatever the control plane answered
DestroyQpCmd_IgnoreRc(rc) ==
    /\ res.pc = "idle" /\ res.qp_ret = "ok" /\ res.n < MaxSetup
    /\ res' = [res EXCEPT !.pc = "dq_release", !.qp_obj = (rc # 0), !.qp_rc = rc,
                          !.n = @ + 1]
    /\ UNCHANGED <<qp, cq, pool, lock, th, calls, cqlog, polled, xl>>

\* rc = ibv_cmd_destroy_qp(ibqp); if (rc) return rc;
DestroyQpCmd(rc) ==
    /\ res.pc = "idle" /\ res.qp_ret = "ok" /\ res.n < MaxSetup
    /\ res' = IF rc # 0 THEN [res EXCEPT !.qp_rc = rc, !.n = @ + 1]
                        ELSE [res EXCEPT !.pc = "dq_release", !.qp_obj = FALSE,
                                         !.qp_rc = 0, !.n = @ + 1]
    /\ UNCHANGED <<qp, cq, pool, lock, th, calls, cqlog, polled, xl>>

\* munmap of both regions when mapped, free of both pool tables and of the qp
DestroyQpRelease ==
    /\ res.pc = "dq_release"
    /\ res' = [res EXCEPT !.pc = "idle", !.sq_map = FALSE, !.rq_map = FALSE,
                          !.sq_tab = IF @ > 0 THEN @ - 1 ELSE 0,
                          !.rq_tab = IF @ > 0 THEN @ - 1 ELSE 0,
                          !.qp_ret = "none", !.qp_rc = 0]
    /\ qp' = [qp EXCEPT !.live = FALSE]
    /\ pool' = [pool EXCEPT !["sq"] = NoPool, !["rq"] = NoPool]
    /\ UNCHANGED <<cq, lock, th, calls, cqlog, polled, xl>>

\* rc = ibv_cmd_destroy_cq(ibcq); if (rc) return rc;
DestroyCqCmd(rc) ==
    /\ res.pc = "idle" /\ res.cq_ret = "ok" /\ res.n < MaxSetup
    /\ res' = IF rc # 0 THEN [res EXCEPT !.cq_rc = rc, !.n = @ + 1]
                        ELSE [res EXCEPT !.pc = "dc_release", !.cq_obj = FALSE,
                                         !.cq_rc = 0, !.n = @ + 1]
    /\ UNCHANGED <<qp, cq, pool, lock, th, calls, cqlog, polled, xl>>

\* munmap of the region when mapped, free of the pool table and of the cq
DestroyCqRelease ==
    /\ res.pc = "dc_release"
    /\ res' = [res EXCEPT !.pc = "idle", !.cq_map = FALSE,
                          !.cq_tab = IF @ > 0 THEN @ - 1 ELSE 0,
                          !.cq_ret = "none", !.cq_rc = 0]
    /\ cq' = [cq EXCEPT !.live = FALSE]
    /\ pool' = [pool EXCEPT !["cq"] = NoPool]
    /\ UNCHANGED <<qp, lock, th, calls, cqlog, polled, xl>>

(***************************************************************************)
(* virtio_rdma_poll_cq.                                                    *)
(***************************************************************************)
\* a thread calls ibv_poll_cq and reaches pthread_spin_lock(&cq->lock)
PollCall(t) ==
    /\ cq.live
    /\ th[t].pc = "idle"
    /\ calls < MaxCalls
    /\ th' = [th EXCEPT ![t] = [IdleTh EXCEPT !.pc = "p_lock", !.op = "poll"]]
    /\ calls' = calls + 1
    /\ UNCHANGED <<qp, cq, pool, lock, cqlog, polled, xl, res>>

\* pthread_spin_lock(&cq->lock) returns; num_entries is what the caller passed
PollLock(t, num_entries) ==
    /\ th[t].pc = "p_lock"
    /\ lock["cq"] = FREE
    /\ lock' = [lock EXCEPT !["cq"] = t]
    /\ th' = [th EXCEPT ![t].pc = "p_loop", ![t].num = num_entries]
    /\ UNCHANGED <<qp, cq, pool, calls, cqlog, polled, xl, res>>

\* wc[i] = the decoded record
SetWc(wc, i, rec) ==
    [j \in 1..(IF i + 1 > Len(wc) THEN i + 1 ELSE Len(wc)) |->
        IF j = i + 1 THEN rec ELSE wc[j]]

\* PollGet with the loop condition i <= num_entries
PollGet_OffByOne(t) ==
    /\ th[t].pc = "p_loop"
    /\ th[t].i <= th[t].num
    /\ LET e == used_head(pool["cq"])
       IN  IF e = 0
           THEN /\ th' = [th EXCEPT ![t].empty = TRUE, ![t].pc = "p_out"]
                /\ pool' = pool
           ELSE /\ pool' = [pool EXCEPT !["cq"] = vring_get_one(@)]
                /\ th' = [th EXCEPT ![t].buf = e, ![t].got = @ + 1,
                                    ![t].wc = SetWc(@, th[t].i,
                                                    DecodeCqe(pool["cq"].slots[e])),
                                    ![t].pc = "p_add"]
    /\ UNCHANGED <<qp, cq, lock, calls, cqlog, polled, xl, res>>

\* while (i < num_entries): vring_get_one, break on NULL, decode into wc[i]
PollGet(t) ==
    /\ th[t].pc = "p_loop"
    /\ th[t].i < th[t].num
    /\ LET e == used_head(pool["cq"])
       IN  IF e = 0
           THEN /\ th' = [th EXCEPT ![t].empty = TRUE, ![t].pc = "p_out"]
                /\ pool' = pool
           ELSE /\ pool' = [pool EXCEPT !["cq"] = vring_get_one(@)]
                /\ th' = [th EXCEPT ![t].buf = e, ![t].got = @ + 1,
                                    ![t].wc = SetWc(@, th[t].i,
                                                    DecodeCqe(pool["cq"].slots[e])),
                                    ![t].pc = "p_add"]
    /\ UNCHANGED <<qp, cq, lock, calls, cqlog, polled, xl, res>>

\* PollAdd without i++: the next completion overwrites wc[i]
PollAdd_NoAdvance(t) ==
    /\ th[t].pc = "p_add"
    /\ pool' = [pool EXCEPT !["cq"] = vring_add_one(@, th[t].buf, CqReqSize, ZeroCqReq)]
    /\ th' = [th EXCEPT ![t].buf = 0, ![t].pc = "p_loop"]
    /\ UNCHANGED <<qp, cq, lock, calls, cqlog, polled, xl, res>>

\* vring_add_one(&cq->vring, buf_entry, buf_entry->len); i++
PollAdd(t) ==
    /\ th[t].pc = "p_add"
    /\ pool' = [pool EXCEPT !["cq"] = vring_add_one(@, th[t].buf, CqReqSize, ZeroCqReq)]
    /\ th' = [th EXCEPT ![t].buf = 0, ![t].i = @ + 1, ![t].pc = "p_loop"]
    /\ UNCHANGED <<qp, cq, lock, calls, cqlog, polled, xl, res>>

\* the loop ends with i >= num_entries
PollFull(t) ==
    /\ th[t].pc = "p_loop"
    /\ th[t].i >= th[t].num
    /\ th' = [th EXCEPT ![t].pc = "p_out"]
    /\ UNCHANGED <<qp, cq, pool, lock, calls, cqlog, polled, xl, res>>

\* pthread_spin_unlock(&cq->lock); return i
PollUnlock(t) ==
    /\ th[t].pc = "p_out"
    /\ polled' = polled \o SubSeq(th[t].wc, 1, th[t].i)
    /\ th' = [th EXCEPT ![t] = IdleTh]
    /\ lock' = [lock EXCEPT !["cq"] = FREE]
    /\ UNCHANGED <<qp, cq, pool, calls, cqlog, xl, res>>

(***************************************************************************)
(* The backend device.  On a send or receive ring it consumes the next     *)
(* available descriptor and returns its entry through the used ring.  On   *)
(* the completion ring it takes the next posted slot, writes a completion  *)
(* record into it and returns it through the used ring.                    *)
(***************************************************************************)
BackendUse(q) ==
    /\ pool[q].avail # <<>>
    /\ pool' = [pool EXCEPT ![q].avail = Tail(@),
                            ![q].used = Append(@, Head(pool[q].avail).idx)]
    /\ UNCHANGED <<qp, cq, lock, th, calls, cqlog, polled, xl, res>>

\* the completion record the backend writes for request id: a successful
\* send for id 1, a failed receive with immediate data for the others
CqRecord(id) ==
    IF id = 1
    THEN [wr_id |-> id, status |-> VIRTIO_IB_WC_SUCCESS,
          opcode |-> VIRTIO_IB_WC_SEND, wc_flags |-> 0]
    ELSE [wr_id |-> id, status |-> VIRTIO_IB_WC_WR_FLUSH_ERR,
          opcode |-> VIRTIO_IB_WC_RECV, wc_flags |-> VIRTIO_IB_WC_WITH_IMM]

BackendComplete(id) ==
    /\ pool["cq"].avail # <<>>
    /\ Len(cqlog) < MaxCqe
    /\ LET e == Head(pool["cq"].avail).idx
       IN  pool' = [pool EXCEPT !["cq"].avail = Tail(@),
                                !["cq"].slots[e] = CqRecord(id),
                                !["cq"].used = Append(@, e)]
    /\ cqlog' = Append(cqlog, id)
    /\ UNCHANGED <<qp, cq, lock, th, calls, polled, xl, res>>

CqIds == {1, 2}

(***************************************************************************)
(* Specifications.                                                         *)
(*   Spec       one queue pair, two threads posting sends                  *)
(*   QpSpec     one queue pair, one thread posting sends and receives      *)
(*   BuildSpec  one queue pair, one thread posting sends of every kind     *)
(*   CqSpec     one completion queue, two threads polling                  *)
(*   SetupSpec  creation and destruction of the queue pair and the         *)
(*              completion queue, any step failing                         *)
(*   XlatSpec   one call of a translation function on any byte             *)
(*   LockSpec   one queue pair and one completion queue, two threads       *)
(*              posting sends and receives and polling                     *)
(***************************************************************************)
CreateQpAny ==
    \E ty \in QpTypes, n \in 1..MaxDepth, db \in BOOLEAN :
          CreateQp(ty, n, n, MaxSge, MaxSge, db)

SendSteps(t) ==
    \/ PostSendCall(t)
    \/ PostSendPop(t)
    \/ PostSendBuild(t)
    \/ PostSendAdd(t)
    \/ PostSendNotify(t)
    \/ PostSendBadWr(t)
    \/ PostSendUnlock(t)

RecvSteps(t) ==
    \/ PostRecvCall(t)
    \/ PostRecvPop(t)
    \/ PostRecvBuild(t)
    \/ PostRecvAdd(t)
    \/ PostRecvNotify(t)
    \/ PostRecvUnlock(t)

PollSteps(t) ==
    \/ PollCall(t)
    \/ PollGet(t)
    \/ PollAdd(t)
    \/ PollFull(t)
    \/ PollUnlock(t)

Next ==
    \/ CreateQpAny
    \/ \E t \in Threads, reqs \in FewSendLists : PostSendLock(t, reqs)
    \/ \E t \in Threads : SendSteps(t)
    \/ BackendUse("sq")

Spec == Init /\ [][Next]_vars

QpNext ==
    \/ CreateQpAny
    \/ \E reqs \in ValidSendLists : PostSendLock("t1", reqs)
    \/ SendSteps("t1")
    \/ \E reqs \in ValidRecvLists : PostRecvLock("t1", reqs)
    \/ RecvSteps("t1")
    \/ BackendUse("sq")
    \/ BackendUse("rq")

QpSpec == Init /\ [][QpNext]_vars

BuildNext ==
    \/ CreateQpAny
    \/ \E reqs \in BuildLists : PostSendLock("t1", reqs)
    \/ SendSteps("t1")
    \/ BackendUse("sq")

BuildSpec == Init /\ [][BuildNext]_vars

CqNext ==
    \/ \E n \in 1..MaxDepth : CreateCq(n)
    \/ \E t \in Threads, n \in -1..MaxPoll : PollLock(t, n)
    \/ \E t \in Threads : PollSteps(t)
    \/ \E id \in CqIds : BackendComplete(id)

CqSpec == Init /\ [][CqNext]_vars

SetupNext ==
    \/ \E ok \in BOOLEAN : CreateQpCmd(ok)
    \/ \E ok \in BOOLEAN : CreateQpSqMap(ok)
    \/ \E ok \in BOOLEAN : CreateQpSqPool(ok, MaxDepth, MaxSge)
    \/ \E ok \in BOOLEAN : CreateQpRqMap(ok)
    \/ \E ok \in BOOLEAN :
          CreateQpRqPool(ok, IBV_QPT_RC, MaxDepth, MaxSge, MaxSge, TRUE)
    \/ CreateQpFailRq
    \/ CreateQpFailSq
    \/ CreateQpFail
    \/ \E ok \in BOOLEAN : CreateCqCmd(ok)
    \/ \E ok \in BOOLEAN : CreateCqMap(ok)
    \/ \E ok \in BOOLEAN : CreateCqPool(ok, MaxDepth)
    \/ CreateCqFail
    \/ \E rc \in DestroyRcs : DestroyQpCmd(rc)
    \/ DestroyQpRelease
    \/ \E rc \in DestroyRcs : DestroyCqCmd(rc)
    \/ DestroyCqRelease

SetupSpec == Init /\ [][SetupNext]_vars

XlatInit ==
    /\ qp = [live |-> FALSE, qp_type |-> 0, num_sq_sge |-> 0, num_rq_sge |-> 0,
             doorbell |-> FALSE]
    /\ cq = [live |-> FALSE, num_cqe |-> 0]
    /\ pool = [q \in Queues |-> NoPool]
    /\ lock = [q \in Queues |-> FREE]
    /\ th = [t \in Threads |-> IdleTh]
    /\ calls = 0
    /\ cqlog = <<>>
    /\ polled = <<>>
    /\ xl \in [fn : {"none"}, arg : 0..(U8 - 1), out : {0}]
    /\ res = NoRes

Translate(fn) ==
    /\ xl.fn = "none"
    /\ xl' = [fn |-> fn, arg |-> xl.arg, out |-> XlatApply(fn, xl.arg)]
    /\ UNCHANGED <<qp, cq, pool, lock, th, calls, cqlog, polled, res>>

XlatNext == \E fn \in XlatFns : Translate(fn)

XlatSpec == XlatInit /\ [][XlatNext]_vars

\* lists of at most MaxBuildList requests, some of them refused by post_send
ShortSendLists == {l \in FewSendLists : Len(l) <= MaxBuildList}
ShortRecvLists == {l \in ValidRecvLists : Len(l) <= MaxBuildList}

\* send and receive pools of one slot, so that a second request finds none
LockNext ==
    \/ \E ty \in {IBV_QPT_RC, IBV_QPT_UC} : CreateQp(ty, 1, 1, MaxSge, MaxSge, TRUE)
    \/ CreateCq(MaxDepth)
    \/ \E t \in Threads, reqs \in ShortSendLists : PostSendLock(t, reqs)
    \/ \E t \in Threads : SendSteps(t)
    \/ \E t \in Threads, reqs \in ShortRecvLists : PostRecvLock(t, reqs)
    \/ \E t \in Threads : RecvSteps(t)
    \/ \E t \in Threads, n \in {0, MaxPoll} : PollLock(t, n)
    \/ \E t \in Threads : PollSteps(t)
    \/ BackendComplete(1)

LockSpec == Init /\ [][LockNext]_vars

(***************************************************************************)
(* Vocabulary of the properties.                                           *)
(***************************************************************************)
QueueOf(op) == IF op = "send" THEN "sq" ELSE IF op = "recv" THEN "rq" ELSE "cq"

\* threads inside a call on queue q, past its lock acquisition
Inside(q) ==
    {t \in Threads : /\ th[t].op # "none"
                     /\ QueueOf(th[t].op) = q
                     /\ th[t].pc \notin {"idle", "s_lock", "r_lock", "p_lock"}}

\* entries a running call holds in buf_entry
Held(q) == {t \in Inside(q) : th[t].buf # 0}

FreeCount(q) == Len(pool[q].flist)
PostedCount(q) == Len(pool[q].avail) + Len(pool[q].used)

\* the entries of queue q that some owner holds, one per holding
Owned(q) ==
    pool[q].flist \o [j \in 1..Len(pool[q].avail) |-> pool[q].avail[j].idx]
                  \o pool[q].used

Inline(w) == HasBit(w.send_flags, IBV_SEND_INLINE)

\* every request of the list thread t handed over is one the call accepts
AllValid(t) ==
    th[t].op = "send" =>
        \A j \in 1..Len(th[t].reqs) :
            SendXportRc(qp.qp_type, th[t].reqs[j].opcode) = 0

\* the call of thread t has reached its return with rc and *bad_wr settled
AtReturn(t) == th[t].pc \in {"s_ret", "r_out"}

IsNotify(e) == e \in {"vring_notify", "slow_doorbell"}

(***************************************************************************)
(* C1: in every pool, free-count + posted-count + consumer-held-count      *)
(* equals the negotiated depth after every operation, also after a post    *)
(* call that returns an error.                                             *)
(***************************************************************************)
C1_PoolConservation ==
    \A q \in Queues :
        FreeCount(q) + PostedCount(q) + Cardinality(Held(q)) = pool[q].depth

(***************************************************************************)
(* C2: a post of n valid requests that obtains only k < n slots publishes  *)
(* exactly the first k requests, one descriptor each and in list order,    *)
(* returns -ENOMEM, designates request k+1 in *bad_wr, and leaves the k    *)
(* descriptors in the ring.                                                *)
(***************************************************************************)
C2_PartialBatch ==
    \A t \in Threads :
        (AtReturn(t) /\ AllValid(t)) =>
            LET n == Len(th[t].reqs)
                k == Len(th[t].pub)
                a == pool[QueueOf(th[t].op)].avail
                m == IF Len(a) < k THEN Len(a) ELSE k
            IN  /\ k <= n
                /\ (k < n) <=> (th[t].rc = -ENOMEM)
                /\ (k < n) => th[t].bad = k + 1
                /\ (k = n) => th[t].rc = 0
                /\ \A j \in 1..k :
                       th[t].pub[j].src = ([wr_id |-> j] @@ th[t].reqs[j])
                \* what the backend has not consumed yet is still in the ring
                /\ \A j \in 1..m : a[Len(a) - m + j] = th[t].pub[k - m + j]

\* three requests posted with one slot obtainable: one published, the
\* second reported, the first still in the ring
C2_Witness ==
    \E t \in Threads :
        /\ th[t].pc = "s_ret" /\ AllValid(t)
        /\ Len(th[t].reqs) = 3 /\ Len(th[t].pub) = 1
        /\ th[t].rc = -ENOMEM /\ th[t].bad = 2
        /\ pool["sq"].avail # <<>>

(***************************************************************************)
(* C3: the completions the poll calls return, concatenated, are the        *)
(* records the backend published, in the same order, each with the id of   *)
(* its record: what was returned, then what the running poll has decoded,  *)
(* then what waits in the used ring, is the published sequence.            *)
(***************************************************************************)
\* the decoded entries of the running poll call (at most one holds the lock)
RECURSIVE InFlight(_)
InFlight(ts) ==
    IF ts = {} THEN <<>>
    ELSE LET t == CHOOSE x \in ts : TRUE
         IN  th[t].wc \o InFlight(ts \ {t})

Waiting ==
    [j \in 1..Len(pool["cq"].used) |-> pool["cq"].slots[pool["cq"].used[j]].wr_id]

Ids(wcs) == [j \in 1..Len(wcs) |-> wcs[j].wr_id]

C3_PollFifo == Ids(polled \o InFlight(Inside("cq"))) \o Waiting = cqlog

C3_Witness ==
    /\ Len(polled) = 3
    /\ Ids(polled) = cqlog
    /\ polled[1].wr_id # polled[2].wr_id
    /\ lock["cq"] = FREE

(***************************************************************************)
(* C4: concurrent post_send calls on one queue pair never interleave: at   *)
(* most one thread is past the send lock, the producer index advances by   *)
(* exactly one per accepted request and never otherwise, and no entry is   *)
(* held by two owners or popped while the backend owns its descriptor.     *)
(***************************************************************************)
C4_Mutex ==
    /\ Cardinality(Inside("sq")) <= 1
    /\ \A t \in Inside("sq") : lock["sq"] = t

C4_NoReuse ==
    /\ \A i, j \in 1..Len(Owned("sq")) : i # j => Owned("sq")[i] # Owned("sq")[j]
    /\ \A t \in Held("sq") :
          /\ \A j \in 1..Len(Owned("sq")) : Owned("sq")[j] # th[t].buf
          /\ \A u \in Held("sq") : u # t => th[u].buf # th[t].buf

C4_ProducerStep ==
    LET a == pool["sq"].avail_idx
        b == pool["sq"].avail_idx'
        accepted == {t \in Threads : /\ th[t].op = "send" /\ th[t]'.op = "send"
                                     /\ Len(th[t]'.pub) = Len(th[t].pub) + 1}
    IN  /\ b # a => (b = (a + 1) % U16 /\ Cardinality(accepted) = 1)
        /\ accepted # {} => b = (a + 1) % U16

C4_SendSerialized == [](C4_Mutex /\ C4_NoReuse) /\ [][C4_ProducerStep]_vars

\* one thread publishes inside the lock while the other spins on it
C4_Witness ==
    \E t, u \in Threads :
        /\ th[t].pc = "s_add" /\ th[t].wr = 2
        /\ th[u].pc = "s_lock"
        /\ lock["sq"] = t

(***************************************************************************)
(* C5: poll returns a count c with 0 <= c <= maxEntries (0 for maxEntries  *)
(* <= 0), has consumed exactly c used descriptors, stops short of          *)
(* maxEntries only when get_one found the ring empty, always has a next    *)
(* step, and a poll that finds nothing leaves ring and pool unchanged.     *)
(***************************************************************************)
C5_Count ==
    \A t \in Threads :
        th[t].pc = "p_out" =>
            /\ th[t].i >= 0
            /\ th[t].num >= 0 => th[t].i <= th[t].num
            /\ th[t].num <= 0 => th[t].i = 0
            /\ th[t].got = th[t].i
            /\ Len(th[t].wc) = th[t].i
            /\ th[t].i < th[t].num => th[t].empty

C5_NeverWaits ==
    \A t \in Inside("cq") : ENABLED PollSteps(t)

C5_EmptyPollFrame ==
    \A t \in Threads :
        (th[t].op = "poll" /\ th[t]' # th[t] /\ th[t].got = 0 /\ th[t]'.got = 0)
            => pool' = pool

C5_PollBounded == [](C5_Count /\ C5_NeverWaits) /\ [][C5_EmptyPollFrame]_vars

\* a poll for two entries that got one and stopped on the empty ring
C5_Witness ==
    \E t \in Threads :
        /\ th[t].pc = "p_out" /\ th[t].num = 2 /\ th[t].i = 1 /\ th[t].empty

(***************************************************************************)
(* C6 as stated: a created completion queue of depth d has d entries in    *)
(* its free list whenever no poll is running.                              *)
(***************************************************************************)
C6_FreeListFull ==
    (cq.live /\ Inside("cq") = {}) => FreeCount("cq") = cq.num_cqe

(***************************************************************************)
(* C6 amended: creation posts every entry, so a created completion queue   *)
(* of depth d has an empty free list and, whenever no poll holds an entry, *)
(* d posted entries; a consumed completion is posted again, not freed.     *)
(***************************************************************************)
C6_AllPosted ==
    cq.live =>
        /\ pool["cq"].depth = cq.num_cqe
        /\ FreeCount("cq") = 0
        /\ Held("cq") = {} => PostedCount("cq") = cq.num_cqe

\* the backend completed a request, poll consumed it, the slot is posted again
C6_Witness ==
    /\ cq.live /\ cq.num_cqe = 2
    /\ polled # <<>>
    /\ Inside("cq") = {}
    /\ Len(pool["cq"].avail) = 2

(***************************************************************************)
(* C7: a post call that accepts all n >= 1 requests triggers notify        *)
(* exactly once, after the add_one of the last request, through the        *)
(* doorbell when one was negotiated and the slow doorbell otherwise; no    *)
(* call notifies before its last add_one or more than once.                *)
(***************************************************************************)
C7_SingleNotify ==
    \A t \in Threads :
        LET ev == th[t].ev
            n == Len(th[t].reqs)
        IN  /\ \A j \in 1..Len(ev) : IsNotify(ev[j]) => j = Len(ev)
            /\ (AtReturn(t) /\ th[t].rc = 0 /\ n >= 1) =>
                  /\ Len(th[t].pub) = n
                  /\ Len(ev) = n + 1
                  /\ \A j \in 1..n : ev[j] = "add"
                  /\ ev[n + 1] = (IF qp.doorbell THEN "vring_notify"
                                  ELSE "slow_doorbell")

C7_Witness ==
    \E t \in Threads :
        /\ AtReturn(t) /\ th[t].rc = 0
        /\ th[t].ev = <<"add", "add", "slow_doorbell">>

(***************************************************************************)
(* C8: a published send request with the inline flag has inline length     *)
(* equal to the sum of its fragments' lengths, holds the fragments' bytes  *)
(* contiguously in list order and carries no scatter-gather descriptors;   *)
(* one without the flag carries the scatter-gather list verbatim and no    *)
(* payload bytes.                                                          *)
(***************************************************************************)
C8_Payload ==
    \A j \in 1..Len(pool["sq"].avail) :
        LET d == pool["sq"].avail[j]
            r == pool["sq"].slots[d.idx]
        IN  IF Inline(d.src)
            THEN /\ r.inline_len = SumLen(d.src.sg_list)
                 /\ r.trail = [kind |-> "inline", data |-> Concat(d.src.sg_list)]
                 /\ d.len = SqReqSize
            ELSE r.trail = [kind |-> "sgl", data |-> d.src.sg_list]

\* two fragments of 4 bytes posted inline into a slot used before
C8_Witness ==
    \E j \in 1..Len(pool["sq"].avail) :
        LET d == pool["sq"].avail[j]
        IN  /\ Inline(d.src)
            /\ Len(d.src.sg_list) = 2
            /\ pool["sq"].slots[d.idx].inline_len = 8
            /\ pool["sq"].avail_idx > pool["sq"].depth

(***************************************************************************)
(* C9: the record written into a slot and the length passed to add_one     *)
(* never exceed the entry size the pool was initialised with.              *)
(***************************************************************************)
C9_FitsEntry ==
    \A q \in {"sq", "rq"} :
        /\ \A j \in 1..Len(pool[q].avail) : pool[q].avail[j].len <= pool[q].entry_size
        /\ \A e \in 1..pool[q].depth : pool[q].slots[e].wlen <= pool[q].entry_size

(***************************************************************************)
(* C10: every send request is published with a length of exactly the      *)
(* header plus the trailing bytes it uses: the descriptors of a request    *)
(* without the inline flag, the inline bytes of one with it.               *)
(***************************************************************************)
C10_ExactLength ==
    \A j \in 1..Len(pool["sq"].avail) :
        LET d == pool["sq"].avail[j]
            r == pool["sq"].slots[d.idx]
        IN  d.len = SqReqSize + (IF Inline(d.src) THEN r.inline_len
                                 ELSE SgeSize * Len(d.src.sg_list))

(***************************************************************************)
(* C11: each translation function is total over its 8-bit input; an input  *)
(* outside its mapped set yields the one sentinel (uint8_t)-1, which no    *)
(* mapped input yields and which is no code, and no combination of flag    *)
(* bits, of the target encoding; a polled record with an unrecognised      *)
(* status, opcode or flags byte is reported with the sentinel in that      *)
(* field.                                                                  *)
(***************************************************************************)
\* f maps arg (outside `mapped`: to the sentinel) into `codes`
C11_Total(arg, out, mapped, codes) ==
    /\ out \in 0..(U8 - 1)
    /\ arg \in mapped => (out \in codes /\ out # INVALID_U8)
    /\ arg \notin mapped => (out = INVALID_U8 /\ out \notin codes)

C11_Sentinel ==
    LET v == xl.arg
        r == xl.out
    IN  CASE xl.fn = "to_ib_status" -> C11_Total(v, r, WireWcStatuses, IbvWcStatusCodes)
          [] xl.fn = "to_ib_wc_opcode" -> C11_Total(v, r, WireWcOpcodes, IbvWcOpcodeCodes)
          [] xl.fn = "to_virtio_wr_opcode" ->
                 C11_Total(v, r, GenericWrOpcodes, VirtioWrOpcodeCodes)
          [] xl.fn = "to_ib_wc_flags" -> C11_Total(v, r, WireWcFlags, IbvWcFlagCombos)
          [] xl.fn = "to_virtio_send_flags" ->
                 C11_Total(v, r, GenericSendFlags, VirtioSendFlagCombos)
          [] xl.fn = "poll_cq" ->
                 /\ C11_Total(v, r.status, WireWcStatuses, IbvWcStatusCodes)
                 /\ C11_Total(v, r.opcode, WireWcOpcodes, IbvWcOpcodeCodes)
                 /\ C11_Total(v, r.wc_flags, WireWcFlags, IbvWcFlagCombos)
          [] OTHER -> TRUE

\* a record polled with a byte that is no wire status, opcode or flag
C11_Witness ==
    /\ xl.fn = "poll_cq" /\ xl.arg = 200
    /\ xl.out.status = INVALID_U8
    /\ xl.out.opcode = INVALID_U8
    /\ xl.out.wc_flags = INVALID_U8

(***************************************************************************)
(* C12: post_send publishes a request only on an RC or UD queue pair and   *)
(* only with one of the five supported opcodes: a call fails at the first  *)
(* request that is not such, with -EOPNOTSUPP or -EINVAL, publishing       *)
(* neither it nor a later one, and no descriptor in the send ring carries  *)
(* the untranslated opcode.                                                *)
(***************************************************************************)
Supported(w) ==
    /\ qp.qp_type \in {IBV_QPT_RC, IBV_QPT_UD}
    /\ w.opcode \in GenericWrOpcodes

C12_SupportedOnly ==
    /\ \A j \in 1..Len(pool["sq"].avail) :
           LET d == pool["sq"].avail[j]
           IN  /\ Supported(d.src)
               /\ pool["sq"].slots[d.idx].opcode # INVALID_U8
    /\ \A t \in Threads :
           (th[t].pc = "s_ret" /\ \E j \in 1..Len(th[t].reqs) : ~Supported(th[t].reqs[j])) =>
               LET k == CHOOSE j \in 1..Len(th[t].reqs) :
                            /\ ~Supported(th[t].reqs[j])
                            /\ \A i \in 1..(j - 1) : Supported(th[t].reqs[i])
               IN  /\ Len(th[t].pub) < k
                   /\ th[t].rc \in {-ENOMEM, -EOPNOTSUPP, -EINVAL}
                   /\ th[t].rc # -ENOMEM => th[t].bad = k

(***************************************************************************)
(* C13: when creation of a queue pair or completion queue fails at any     *)
(* step, every step completed before is undone before the call returns:    *)
(* each mapped region is unmapped, exactly once, each allocated pool table *)
(* is freed, the control-plane object is destroyed and no object is        *)
(* returned.                                                               *)
(***************************************************************************)
C13_Unwound ==
    /\ (res.pc = "idle" /\ res.qp_ret = "null") =>
           /\ ~res.qp_obj /\ ~res.sq_map /\ ~res.rq_map
           /\ res.sq_tab = 0 /\ res.rq_tab = 0
           /\ ~qp.live
    /\ (res.pc = "idle" /\ res.cq_ret = "null") =>
           /\ ~res.cq_obj /\ ~res.cq_map /\ res.cq_tab = 0
           /\ ~cq.live
    /\ ~res.stray

(***************************************************************************)
(* C18: destroy unmaps the regions and frees the pool tables only after    *)
(* the control plane has destroyed the object; a rejected destroy returns  *)
(* the error and leaves mappings, pool tables and the object as they were, *)
(* so outside creation no region is unmapped while the control plane still *)
(* holds the object.                                                       *)
(***************************************************************************)
QpCreatePcs ==
    {"q_sq_map", "q_sq_pool", "q_rq_map", "q_rq_pool", "q_fail_rq", "q_fail_sq",
     "q_fail"}

CqCreatePcs == {"c_map", "c_pool", "c_fail"}

QpIntact ==
    /\ res.sq_map /\ res.rq_map /\ res.sq_tab > 0 /\ res.rq_tab > 0
    /\ qp.live /\ pool["sq"].depth > 0 /\ pool["rq"].depth > 0

CqIntact == res.cq_map /\ res.cq_tab > 0 /\ cq.live /\ pool["cq"].depth > 0

C18_ReleaseAfterDestroy ==
    /\ (res.qp_obj /\ res.pc \notin QpCreatePcs) => QpIntact
    /\ (res.cq_obj /\ res.pc \notin CqCreatePcs) => CqIntact
    /\ res.qp_rc # 0 => (res.qp_obj /\ res.qp_ret = "ok")
    /\ res.cq_rc # 0 => (res.cq_obj /\ res.cq_ret = "ok")

\* a destroy of the queue pair was rejected and has returned
C18_Witness ==
    /\ res.pc = "idle" /\ res.qp_rc = EINVAL
    /\ res.qp_obj /\ QpIntact

(***************************************************************************)
(* C15: a post call that aborts its batch at request k > 1 has notified    *)
(* the backend of the k-1 requests it published before it returns: no      *)
(* call returns with a descriptor it published and no notify after it.     *)
(***************************************************************************)
C15_NotifiedBeforeReturn ==
    \A t \in Threads :
        (AtReturn(t) /\ th[t].pub # <<>>) =>
            /\ th[t].ev # <<>>
            /\ IsNotify(th[t].ev[Len(th[t].ev)])

(***************************************************************************)
(* C16: for every subset of the send flags set on a work request, the      *)
(* empty one and those of several flags included, the published header     *)
(* carries exactly the wire flags of that subset, and the payload is       *)
(* packed inline exactly when the header carries the wire inline flag.     *)
(***************************************************************************)
\* the wire flags that correspond to a set of generic send flags
WireFlagsOf(flags) ==
    (IF HasBit(flags, IBV_SEND_FENCE) THEN VIRTIO_IB_SEND_FENCE ELSE 0)
    + (IF HasBit(flags, IBV_SEND_SIGNALED) THEN VIRTIO_IB_SEND_SIGNALED ELSE 0)
    + (IF HasBit(flags, IBV_SEND_SOLICITED) THEN VIRTIO_IB_SEND_SOLICITED ELSE 0)
    + (IF HasBit(flags, IBV_SEND_INLINE) THEN VIRTIO_IB_SEND_INLINE ELSE 0)

C16_FlagSubsets ==
    \A j \in 1..Len(pool["sq"].avail) :
        LET d == pool["sq"].avail[j]
            r == pool["sq"].slots[d.idx]
        IN  /\ r.send_flags = WireFlagsOf(d.src.send_flags)
            /\ (r.trail.kind = "inline") <=> HasBit(r.send_flags, VIRTIO_IB_SEND_INLINE)

(***************************************************************************)
(* C17: in every pool an entry only moves Free -> Posted (by a post call   *)
(* or by creation) -> Completed (returned by get_one) -> Free (recycled to *)
(* the free list); none moves from Completed directly to Posted or from    *)
(* Free directly to Completed, and none is posted while Posted.            *)
(*   Popped: taken from the free list by a running post call, on its way   *)
(*   to Posted.  A post call's reclaim and pop are one step, so Completed  *)
(*   -> Free -> Popped shows as one move.                                  *)
(***************************************************************************)
\* the state of entry e of the pool pl, with the threads' locals ths
StateOf(pl, ths, q, e) ==
    IF \E j \in 1..Len(pl.flist) : pl.flist[j] = e THEN "Free"
    ELSE IF \E j \in 1..Len(pl.avail) : pl.avail[j].idx = e THEN "Posted"
    ELSE IF \E j \in 1..Len(pl.used) : pl.used[j] = e THEN "Completed"
    ELSE IF \E t \in Threads : ths[t].op = "poll" /\ q = "cq" /\ ths[t].buf = e
         THEN "Completed"
    ELSE IF \E t \in Threads : /\ ths[t].op \in {"send", "recv"}
                                /\ QueueOf(ths[t].op) = q /\ ths[t].buf = e
         THEN "Popped"
    ELSE "Lost"

EntryMoves ==
    {<<"Free", "Popped">>, <<"Popped", "Posted">>, <<"Free", "Posted">>,
     <<"Posted", "Completed">>, <<"Completed", "Free">>, <<"Completed", "Popped">>}

C17_EntryStep ==
    \A q \in Queues :
        pool'[q].depth = pool[q].depth =>
            \A e \in 1..pool[q].depth :
                LET a == StateOf(pool[q], th, q, e)
                    b == StateOf(pool'[q], th', q, e)
                IN  a # b => <<a, b>> \in EntryMoves

C17_EntryCycle == [][C17_EntryStep]_vars

(***************************************************************************)
(* C19: the backend never sees a descriptor whose slot is only partly      *)
(* written.  Every descriptor in the send or receive ring has a slot that  *)
(* already holds all that post_send / post_recv writes for its request     *)
(* (header, addressing, inline bytes or scatter-gather list), and a slot   *)
(* is written only while a post call holds its entry between the pop and   *)
(* add_one: not while it is in the ring, nor before it has come back       *)
(* through get_one.                                                        *)
(***************************************************************************)
\* everything post_send writes into a slot for the request w
SendRecord(req, w) ==
    SendPayload(SendXport(SendHeader(req, w, w.wr_id), qp.qp_type, w.opcode), w)

C19_Written ==
    /\ \A j \in 1..Len(pool["sq"].avail) :
           LET d == pool["sq"].avail[j]
           IN  pool["sq"].slots[d.idx] = SendRecord(pool["sq"].slots[d.idx], d.src)
    /\ \A j \in 1..Len(pool["rq"].avail) :
           LET d == pool["rq"].avail[j]
           IN  pool["rq"].slots[d.idx] =
                   RecvRecord(pool["rq"].slots[d.idx], d.src, d.src.wr_id)

C19_SlotFrame ==
    \A q \in {"sq", "rq"} :
        pool'[q].depth = pool[q].depth =>
            \A e \in 1..pool[q].depth :
                pool'[q].slots[e] # pool[q].slots[e] =>
                    /\ StateOf(pool[q], th, q, e) = "Popped"
                    /\ StateOf(pool'[q], th', q, e) = "Popped"

C19_WrittenBeforePublished == []C19_Written /\ [][C19_SlotFrame]_vars

\* a send slot that went round once is in the ring again with a new request,
\* and a receive descriptor is in its ring
C19_Witness ==
    /\ pool["sq"].avail # <<>>
    /\ pool["sq"].avail_idx > pool["sq"].depth
    /\ pool["rq"].avail # <<>>

(***************************************************************************)
(* C20: exhaustion of the send pool is only momentary.  post_send reports  *)
(* -ENOMEM only while every one of the depth slots is with the backend:    *)
(* posted, or returned since the call's reclaim ran.  Once the backend has *)
(* returned them all the next post_send finds a free slot.                 *)
(***************************************************************************)
C20_ExhaustedOnlyWhilePosted ==
    \A t \in Threads :
        (th[t].op = "send" /\ th[t].pc = "s_out" /\ th[t].rc = -ENOMEM) =>
            Len(pool["sq"].avail) + Len(pool["sq"].used) = pool["sq"].depth

(***************************************************************************)
(* C21: every return path of post_send, post_recv and poll_cq releases the *)
(* one lock the call took (slock, rlock, the completion queue's lock), so  *)
(* a lock is held only by a thread inside the locked section of the call   *)
(* on that object and never after a return, whatever the call returned.    *)
(* The three locks are distinct: a caller waiting for a lock that is free  *)
(* takes it, whoever holds the other two.                                  *)
(***************************************************************************)
\* the positions between the lock and the unlock of each call
LockedPcs(op) ==
    CASE op = "send" -> {"s_loop", "s_build", "s_add", "s_out", "s_ret"}
      [] op = "recv" -> {"r_loop", "r_build", "r_add", "r_out"}
      [] op = "poll" -> {"p_loop", "p_add", "p_out"}
      [] OTHER -> {}

C21_HeldInsideOnly ==
    \A q \in Queues :
        /\ lock[q] # FREE =>
               /\ lock[q] \in Threads
               /\ QueueOf(th[lock[q]].op) = q
               /\ th[lock[q]].pc \in LockedPcs(th[lock[q]].op)
        /\ \A t \in Threads :
               (QueueOf(th[t].op) = q /\ th[t].pc \in LockedPcs(th[t].op)) => lock[q] = t

C21_OwnLockOnly ==
    \A t \in Threads :
        /\ (th[t].pc = "s_lock" /\ lock["sq"] = FREE) => ENABLED PostSendLock(t, <<>>)
        /\ (th[t].pc = "r_lock" /\ lock["rq"] = FREE) => ENABLED PostRecvLock(t, <<>>)
        /\ (th[t].pc = "p_lock" /\ lock["cq"] = FREE) => ENABLED PollLock(t, 0)

C21_LocksReleased == C21_HeldInsideOnly /\ C21_OwnLockOnly

\* a post_send that popped the only slot has returned an error (the slot is
\* neither free nor posted nor held) and slock is free again, while the other
\* thread is inside post_recv or poll_cq holding that call's lock
C21_Witness ==
    /\ pool["sq"].depth = 1 /\ pool["sq"].flist = <<>>
    /\ pool["sq"].avail = <<>> /\ pool["sq"].used = <<>>
    /\ \A t \in Threads : th[t].op # "send"
    /\ lock["sq"] = FREE
    /\ \E t \in Threads : th[t].op \in {"recv", "poll"} /\ lock[QueueOf(th[t].op)] = t

====
